---- MODULE Spec2Model ----
(***************************************************************************)
(* Model of apps/dashboard/app.py: a Flask dashboard that resolves the     *)
(* database configuration from volume-mounted secret files on every        *)
(* request, probes the database once and renders a status page, plus a     *)
(* liveness endpoint.                                                      *)
(*                                                                         *)
(* Strings that the code computes with (file contents, configuration       *)
(* values, the version text) are sequences of one-character strings, so    *)
(* that str.strip() and str.split(",") are computed, not assumed.  A       *)
(* secret file's text is the text f.read() yields for it.  Exception       *)
(* messages and fixed literals are plain strings.                          *)
(***************************************************************************)
EXTENDS Naturals, Sequences, FiniteSets, TLC

VARIABLES
    secretDir,  \* state of the DB_SECRET_DIR path: "ok", "missing", "notdir"
    files,      \* state of each secret file under DB_SECRET_DIR
    env,        \* the process environment's per-field variables (never read by the code)
    dbVersion,  \* the text the server's version() returns
    writes,     \* number of changes the external provisioner has made
    pc,         \* position of the request being handled
    route,      \* path of the request being (or last) handled
    key,        \* number of fields the running _get_db_config call has read
    cfg,        \* index()'s local cfg
    chk_cfg,    \* _check_db()'s local cfg
    conn,       \* _check_db()'s local conn: "none", "open", "closed"
    version,    \* _check_db()'s local version
    result,     \* the (db_ok, info) pair _check_db returned
    exc,        \* exception that escaped the view function, or "none"
    response,   \* the last HTTP response
    leaked,     \* open connection handles no local variable refers to any more
    nReads,     \* secret-file opens attempted by the current request
    nConnects,  \* psycopg2.connect calls made by the current request
    stale       \* a secret file changed since the current request began

vars == <<secretDir, files, env, dbVersion, writes, pc, route, key, cfg, chk_cfg,
          conn, version, result, exc, response, leaked, nReads, nConnects, stale>>

(***************************************************************************)
(* Bounds of the model.                                                    *)
(***************************************************************************)
MaxLen == 3
MaxWrites == 2
MaxOpen == 2

(***************************************************************************)
(* Text.                                                                   *)
(***************************************************************************)
Whitespace == {" ", "\n", "\t", "\r"}

FileChars == {"a", " ", "\n"}

VersionChars == {"P", ",", " "}

SeqsUpTo(S, n) == UNION {[1..m -> S] : m \in 0..n}

RECURSIVE LStrip(_)
LStrip(s) ==
    IF s # <<>> /\ Head(s) \in Whitespace THEN LStrip(Tail(s)) ELSE s

RECURSIVE RStrip(_)
RStrip(s) ==
    IF s # <<>> /\ s[Len(s)] \in Whitespace
    THEN RStrip(SubSeq(s, 1, Len(s) - 1))
    ELSE s

Strip(s) == RStrip(LStrip(s))

\* str.split(sep): the list of segments between occurrences of sep
RECURSIVE Split(_, _)
Split(s, sep) ==
    IF \A i \in 1..Len(s) : s[i] # sep
    THEN <<s>>
    ELSE LET i == CHOOSE j \in 1..Len(s) :
                      s[j] = sep /\ \A l \in 1..(j - 1) : s[l] # sep
         IN  <<SubSeq(s, 1, i - 1)>> \o Split(SubSeq(s, i + 1, Len(s)), sep)

FirstSegmentWhole(text) == text

\* fetchone()[0].split(",")[0]
FirstSegment(text) == Split(text, ",")[1]

(***************************************************************************)
(* Configuration resolution.                                               *)
(***************************************************************************)
ConfigKeys == {"host", "port", "user", "password"}

\* _get_db_config's dict literal: field, secret file name, fallback, in order
Fields ==
    << [name |-> "host",     file |-> "host",     fallback |-> <<>>],
       [name |-> "port",     file |-> "port",     fallback |-> <<"5", "4", "3", "2">>],
       [name |-> "user",     file |-> "username",
        fallback |-> <<"p", "g", "a", "d", "m", "i", "n">>],
       [name |-> "password", file |-> "password", fallback |-> <<>>] >>

FileNames == {Fields[i].file : i \in 1..Len(Fields)}

NoFile == [kind |-> "absent", text |-> <<>>]

TextFile(t) == [kind |-> "file", text |-> t]

Broken == {[kind |-> k, text |-> <<>>] : k \in {"denied", "isdir", "undecodable"}}

Returned(v) == [raised |-> FALSE, exc |-> "none", value |-> v]

Raised(e) == [raised |-> TRUE, exc |-> e, value |-> <<>>]

ReadSecretNoStrip(dir, f, fallback) ==
    IF dir = "notdir" THEN Raised("NotADirectoryError")
    ELSE IF dir = "missing" \/ f.kind = "absent" THEN Returned(fallback)
    ELSE IF f.kind = "denied" THEN Raised("PermissionError")
    ELSE IF f.kind = "isdir" THEN Raised("IsADirectoryError")
    ELSE IF f.kind = "undecodable" THEN Raised("UnicodeDecodeError")
    ELSE Returned(RStrip(f.text))

\* _read_secret(key, fallback): open(path), f.read().strip(); only
\* FileNotFoundError is caught
ReadSecret(dir, f, fallback) ==
    IF dir = "notdir" THEN Raised("NotADirectoryError")
    ELSE IF dir = "missing" \/ f.kind = "absent" THEN Returned(fallback)
    ELSE IF f.kind = "denied" THEN Raised("PermissionError")
    ELSE IF f.kind = "isdir" THEN Raised("IsADirectoryError")
    ELSE IF f.kind = "undecodable" THEN Raised("UnicodeDecodeError")
    ELSE Returned(Strip(f.text))

NoCfg == [k \in ConfigKeys |-> <<>>]

(***************************************************************************)
(* Responses.                                                              *)
(***************************************************************************)
PendingMsg == "Waiting for database to be provisioned..."

PendingHost == <<"(", "p", "e", "n", "d", "i", "n", "g", ")">>

NoResult == [ok |-> FALSE, version |-> <<>>, error |-> ""]

NoResponse ==
    [status |-> 0, body |-> "", db_ok |-> FALSE, db_version |-> <<>>,
     db_error |-> "", db_host |-> <<>>, db_port |-> <<>>]

\* render_template_string(TEMPLATE, db_ok=..., db_version=..., db_error=...,
\* db_host=cfg["host"] or "(pending)", db_port=cfg["port"])
Page(c, r) ==
    [status |-> 200, body |-> "page", db_ok |-> r.ok,
     db_version |-> IF r.ok THEN r.version ELSE <<>>,
     db_error |-> IF r.ok THEN "" ELSE r.error,
     db_host |-> IF c["host"] = <<>> THEN PendingHost ELSE c["host"],
     db_port |-> c["port"]]

\* an exception leaving the view function: the framework answers 500
ServerError == [NoResponse EXCEPT !.status = 500, !.body = "Internal Server Error"]

OpenHandles == leaked + (IF conn = "open" THEN 1 ELSE 0)

(***************************************************************************)
(* The outside world: secret directory, environment, database server.      *)
(***************************************************************************)
DirStates == {"ok", "missing", "notdir"}

Unset == [set |-> FALSE, value |-> <<>>]

SetTo(v) == [set |-> TRUE, value |-> v]

EnvValues == {Unset, SetTo(<<"e">>)}

\* what the external provisioner may leave at a secret file's path
ProvisionedFiles ==
    {NoFile} \cup Broken \cup {TextFile(<<"a", "\n">>), TextFile(<<"\n">>)}

AllFiles == {NoFile} \cup Broken \cup {TextFile(t) : t \in SeqsUpTo(FileChars, MaxLen)}

ConnectErrors == {"connection refused", "timeout expired"}

FetchErrors == {"'NoneType' object is not subscriptable", "server closed the connection"}

Locals0 ==
    /\ pc = "idle"
    /\ route = ""
    /\ key = 0
    /\ cfg = NoCfg
    /\ chk_cfg = NoCfg
    /\ conn = "none"
    /\ version = <<>>
    /\ result = NoResult
    /\ exc = "none"
    /\ response = NoResponse
    /\ leaked = 0
    /\ nReads = 0
    /\ nConnects = 0
    /\ stale = FALSE
    /\ writes = 0

\* a freshly deployed pod: the connection secret has not been provisioned yet
Init ==
    /\ secretDir = "ok"
    /\ files = [f \in FileNames |-> NoFile]
    /\ env \in {[k \in ConfigKeys |-> v] : v \in EnvValues}
    /\ dbVersion = <<"P", ",", " ">>
    /\ Locals0

\* any state of one secret file, of the directory and of the environment
InitSecret ==
    /\ secretDir \in DirStates
    /\ \E g \in FileNames, s \in AllFiles :
           files = [f \in FileNames |-> IF f = g THEN s ELSE NoFile]
    /\ env \in {[k \in ConfigKeys |-> v] : v \in EnvValues}
    /\ dbVersion = <<"P", ",", " ">>
    /\ Locals0

\* a provisioned host and any version text
InitVersion ==
    /\ secretDir = "ok"
    /\ files = [f \in FileNames |-> IF f = "host" THEN TextFile(<<"a", "\n">>) ELSE NoFile]
    /\ env = [k \in ConfigKeys |-> Unset]
    /\ dbVersion \in SeqsUpTo(VersionChars, MaxLen + 1)
    /\ Locals0

(***************************************************************************)
(* Request handling.                                                       *)
(***************************************************************************)
NewRequest(path) ==
    /\ pc \in {"idle", "done"}
    /\ route' = path
    /\ key' = 0
    /\ cfg' = NoCfg
    /\ chk_cfg' = NoCfg
    /\ conn' = "none"
    /\ version' = <<>>
    /\ result' = NoResult
    /\ exc' = "none"
    /\ nReads' = 0
    /\ nConnects' = 0
    /\ stale' = FALSE
    /\ UNCHANGED <<secretDir, files, env, dbVersion, writes, leaked>>

\* a cached configuration: a later request skips resolution
index_cached ==
    IF pc = "done" /\ route = "/" /\ exc = "none"
    THEN /\ pc' = "check_host"
         /\ response' = NoResponse
         /\ conn' = "none"
         /\ version' = <<>>
         /\ result' = NoResult
         /\ nReads' = 0
         /\ nConnects' = 0
         /\ stale' = FALSE
         /\ UNCHANGED <<secretDir, files, env, dbVersion, writes, leaked, route,
                        key, cfg, chk_cfg, exc>>
    ELSE /\ NewRequest("/")
         /\ pc' = "index_cfg"
         /\ response' = NoResponse

\* GET /: index() is entered and calls _get_db_config()
index ==
    /\ NewRequest("/")
    /\ pc' = "index_cfg"
    /\ response' = NoResponse

\* one _read_secret call of the running _get_db_config(); the fourth one
\* completes the dict: index() goes on to call _check_db(), _check_db() goes
\* on to its host test
get_db_config ==
    /\ pc \in {"index_cfg", "check_cfg"}
    /\ LET fld == Fields[key + 1]
           r   == ReadSecret(secretDir, files[fld.file], fld.fallback)
       IN  /\ nReads' = nReads + 1
           /\ IF r.raised
              THEN /\ exc' = r.exc
                   /\ response' = ServerError
                   /\ pc' = "done"
                   /\ UNCHANGED <<key, cfg, chk_cfg>>
              ELSE /\ IF pc = "index_cfg"
                      THEN /\ cfg' = [cfg EXCEPT ![fld.name] = r.value]
                           /\ UNCHANGED chk_cfg
                      ELSE /\ chk_cfg' = [chk_cfg EXCEPT ![fld.name] = r.value]
                           /\ UNCHANGED cfg
                   /\ IF key + 1 < Len(Fields)
                      THEN /\ key' = key + 1
                           /\ pc' = pc
                      ELSE /\ key' = 0
                           /\ pc' = IF pc = "index_cfg" THEN "check_cfg" ELSE "check_host"
                   /\ UNCHANGED <<exc, response>>
    /\ UNCHANGED <<secretDir, files, env, dbVersion, writes, route, conn, version,
                   result, leaked, nConnects, stale>>

HostMissingNever(c) == FALSE

\* not cfg["host"]
HostMissing(c) == c["host"] = <<>>

\* if not cfg["host"]: return False, "Waiting for database to be provisioned..."
check_host ==
    /\ pc = "check_host"
    /\ IF HostMissing(chk_cfg)
       THEN /\ result' = [ok |-> FALSE, version |-> <<>>, error |-> PendingMsg]
            /\ pc' = "render"
       ELSE /\ pc' = "connect"
            /\ UNCHANGED result
    /\ UNCHANGED <<secretDir, files, env, dbVersion, writes, route, key, cfg, chk_cfg,
                   conn, version, exc, response, leaked, nReads, nConnects, stale>>

\* except Exception as exc: return False, str(exc).  The frame is left without
\* conn.close(): a handle that is still open is no longer referenced.
Except(e) ==
    /\ result' = [ok |-> FALSE, version |-> <<>>, error |-> e]
    /\ pc' = "render"
    /\ leaked' = leaked + (IF conn = "open" THEN 1 ELSE 0)
    /\ conn' = "none"

\* psycopg2.connect(..., connect_timeout=3)
connect ==
    /\ pc = "connect"
    /\ nConnects' = nConnects + 1
    /\ \/ /\ OpenHandles < MaxOpen
          /\ conn' = "open"
          /\ pc' = "cursor"
          /\ UNCHANGED <<result, leaked>>
       \/ \E e \in ConnectErrors : Except(e)
    /\ UNCHANGED <<secretDir, files, env, dbVersion, writes, route, key, cfg, chk_cfg,
                   version, exc, response, nReads, stale>>

\* cur = conn.cursor()
cursor ==
    /\ pc = "cursor"
    /\ \/ /\ pc' = "execute"
          /\ UNCHANGED <<result, leaked, conn>>
       \/ Except("connection already closed")
    /\ UNCHANGED <<secretDir, files, env, dbVersion, writes, route, key, cfg, chk_cfg,
                   version, exc, response, nReads, nConnects, stale>>

\* cur.execute("SELECT version();")
execute ==
    /\ pc = "execute"
    /\ \/ /\ pc' = "fetch"
          /\ UNCHANGED <<result, leaked, conn>>
       \/ Except("query failed")
    /\ UNCHANGED <<secretDir, files, env, dbVersion, writes, route, key, cfg, chk_cfg,
                   version, exc, response, nReads, nConnects, stale>>

\* version = cur.fetchone()[0].split(",")[0]
fetch ==
    /\ pc = "fetch"
    /\ \/ /\ version' = FirstSegment(dbVersion)
          /\ pc' = "close"
          /\ UNCHANGED <<result, leaked, conn>>
       \/ /\ \E e \in FetchErrors : Except(e)
          /\ UNCHANGED version
    /\ UNCHANGED <<secretDir, files, env, dbVersion, writes, route, key, cfg, chk_cfg,
                   exc, response, nReads, nConnects, stale>>

\* cur.close(); conn.close(); return True, version
close ==
    /\ pc = "close"
    /\ conn' = "closed"
    /\ result' = [ok |-> TRUE, version |-> version, error |-> ""]
    /\ pc' = "render"
    /\ UNCHANGED <<secretDir, files, env, dbVersion, writes, route, key, cfg, chk_cfg,
                   version, exc, response, leaked, nReads, nConnects, stale>>

\* index() returns render_template_string(...)
render ==
    /\ pc = "render"
    /\ response' = Page(cfg, result)
    /\ pc' = "done"
    /\ UNCHANGED <<secretDir, files, env, dbVersion, writes, route, key, cfg, chk_cfg,
                   conn, version, result, exc, leaked, nReads, nConnects, stale>>

\* a liveness handler that probes the database like the root path
healthz_probing ==
    /\ NewRequest("/healthz")
    /\ pc' = "index_cfg"
    /\ response' = NoResponse

\* GET /healthz: return "ok", 200
healthz ==
    /\ NewRequest("/healthz")
    /\ pc' = "done"
    /\ response' = [NoResponse EXCEPT !.status = 200, !.body = "ok"]

\* the external provisioner (kubelet refreshing the mounted secret) changes
\* one secret file, or the secret directory itself
provision ==
    /\ writes < MaxWrites
    /\ writes' = writes + 1
    /\ stale' = TRUE
    /\ \/ /\ \E f \in FileNames, s \in ProvisionedFiles :
                 /\ s # files[f]
                 /\ files' = [files EXCEPT ![f] = s]
          /\ UNCHANGED secretDir
       \/ /\ \E d \in DirStates :
                 /\ d # secretDir
                 /\ secretDir' = d
          /\ UNCHANGED files
    /\ UNCHANGED <<env, dbVersion, pc, route, key, cfg, chk_cfg, conn, version,
                   result, exc, response, leaked, nReads, nConnects>>

\* the runtime finalizes a connection object nothing refers to, which closes it
finalize ==
    /\ leaked > 0
    /\ leaked' = leaked - 1
    /\ UNCHANGED <<secretDir, files, env, dbVersion, writes, pc, route, key, cfg,
                   chk_cfg, conn, version, result, exc, response, nReads, nConnects,
                   stale>>

Handle ==
    \/ index
    \/ get_db_config
    \/ check_host
    \/ connect
    \/ cursor
    \/ execute
    \/ fetch
    \/ close
    \/ render
    \/ healthz
    \/ finalize

Next == Handle \/ provision

Spec == Init /\ [][Next]_vars

\* the file system does not change: configuration resolution as a function
SpecSecret == InitSecret /\ [][Handle]_vars

SpecVersion == InitVersion /\ [][Handle]_vars

(***************************************************************************)
(* Properties.                                                             *)
(***************************************************************************)
\* index()'s cfg holds a complete configuration
CfgResolved == route = "/" /\ exc = "none" /\ pc \notin {"idle", "index_cfg"}

\* _check_db()'s cfg holds a complete configuration
ChkResolved == CfgResolved /\ pc # "check_cfg"

Finished == pc = "done" /\ route = "/"

Readable(fld) == secretDir = "ok" /\ files[fld.file].kind = "file"

\* r is t without its leading and trailing whitespace
IsTrimOf(r, t) ==
    \E i \in 0..Len(t) : \E j \in i..Len(t) :
        /\ r = SubSeq(t, i + 1, j)
        /\ \A l \in 1..i : t[l] \in Whitespace
        /\ \A l \in (j + 1)..Len(t) : t[l] \in Whitespace
        /\ r # <<>> => (r[1] \notin Whitespace /\ r[Len(r)] \notin Whitespace)

\* v is t up to, not including, its first comma
IsFirstSegment(v, t) ==
    /\ Len(v) <= Len(t)
    /\ v = SubSeq(t, 1, Len(v))
    /\ \A i \in 1..Len(v) : v[i] # ","
    /\ Len(v) = Len(t) \/ t[Len(v) + 1] = ","

\* the value the claimed tier order gives a field: secret file, then the
\* field's environment variable, then the hardcoded default
FirstTier(fld) ==
    IF Readable(fld) THEN Strip(files[fld.file].text)
    ELSE IF env[fld.name].set THEN env[fld.name].value
    ELSE fld.fallback

\* what a resolution of the files as they are now gives a field
Current(fld) == ReadSecret(secretDir, files[fld.file], fld.fallback).value

Shown(host) == IF host = <<>> THEN PendingHost ELSE host

\* C1: a health check with a non-empty host makes exactly one connection
\* attempt, and whenever no health check is running (it has returned, or no
\* request is in progress) no connection handle is open.
C1_ConnectionClosedOnEveryPath ==
    /\ pc \in {"idle", "render", "done"} => OpenHandles = 0
    /\ (pc = "render" /\ chk_cfg["host"] # <<>>) => nConnects = 1

\* C2: every resolved field has the value of the first available tier: its
\* secret file, else its environment variable, else the hardcoded default.
C2_TierOrder ==
    CfgResolved =>
        \A i \in 1..Len(Fields) : cfg[Fields[i].name] = FirstTier(Fields[i])

\* C3: configuration resolution never raises, whatever is at a secret file's
\* path, and a field whose file is not present and readable takes a fallback.
C3_ResolutionNeverRaises ==
    /\ exc = "none"
    /\ CfgResolved =>
           \A i \in 1..Len(Fields) :
               ~Readable(Fields[i]) =>
                   cfg[Fields[i].name] \in
                       {Fields[i].fallback, env[Fields[i].name].value}

\* C4: a GET on the root path always ends in the rendered status page, a
\* failure being shown as the health check's error string.
C4_RootAlwaysRenders ==
    Finished =>
        /\ response.status = 200
        /\ response.body = "page"
        /\ ~result.ok => response.db_error = result.error

\* C5: when the resolved host is empty the health check returns failure with
\* the waiting-for-provisioning message, and no connection is attempted.
C5_EmptyHostPending ==
    (ChkResolved /\ chk_cfg["host"] = <<>>) =>
        /\ nConnects = 0
        /\ conn = "none"
        /\ pc \in {"check_host", "render", "done"}
        /\ pc \in {"render", "done"} =>
               result = [ok |-> FALSE, version |-> <<>>, error |-> PendingMsg]

C5_Witness ==
    /\ Finished
    /\ Readable(Fields[1])
    /\ files["host"].text # <<>>
    /\ chk_cfg["host"] = <<>>
    /\ response.db_error = PendingMsg
    /\ nConnects = 0

\* C6: a root-path request during which no secret file changed used and
\* displays the configuration now in the files: nothing is cached.
C6_ResolvedFresh ==
    /\ (CfgResolved /\ ~stale) =>
           \A i \in 1..Len(Fields) : cfg[Fields[i].name] = Current(Fields[i])
    /\ (ChkResolved /\ ~stale) =>
           \A i \in 1..Len(Fields) : chk_cfg[Fields[i].name] = Current(Fields[i])
    /\ (Finished /\ exc = "none" /\ ~stale) =>
           /\ response.db_host = Shown(Current(Fields[1]))
           /\ response.db_port = Current(Fields[2])
           /\ nReads = 2 * Len(Fields)
           /\ nConnects = IF Current(Fields[1]) = <<>> THEN 0 ELSE 1

C6_Witness ==
    /\ Finished
    /\ ~stale
    /\ writes > 0
    /\ response.db_host = <<"a">>
    /\ nConnects = 1

\* C7: /healthz answers 200 "ok" in one step, reading no secret file and
\* making no database connection, in every state of the files and the server.
C7_HealthzFixed ==
    (route = "/healthz" /\ pc # "idle") =>
        /\ pc = "done"
        /\ response = [NoResponse EXCEPT !.status = 200, !.body = "ok"]
        /\ exc = "none"
        /\ nReads = 0
        /\ nConnects = 0
        /\ conn = "none"

C7_Witness ==
    /\ route = "/healthz"
    /\ pc = "done"
    /\ response.status = 200
    /\ files["host"].kind = "denied"
    /\ leaked > 0

\* C8: a successful health check reports the version text up to, not
\* including, its first comma: no comma in it, the whole text if it has none.
C8_VersionFirstSegment ==
    /\ result.ok => IsFirstSegment(result.version, dbVersion)
    /\ (Finished /\ response.db_ok) => IsFirstSegment(response.db_version, dbVersion)

C8_Witness ==
    /\ Finished
    /\ response.db_ok
    /\ response.db_version = <<"P">>
    /\ \E i \in 1..Len(dbVersion) : \E j \in (i + 1)..Len(dbVersion) :
           dbVersion[i] = "," /\ dbVersion[j] = ","

\* C9: a field whose secret file is present and readable resolves to the
\* file's text without its leading and trailing whitespace, whatever the
\* field's default.
C9_SecretTrimmed ==
    /\ CfgResolved =>
           \A i \in 1..Len(Fields) :
               Readable(Fields[i]) =>
                   IsTrimOf(cfg[Fields[i].name], files[Fields[i].file].text)
    /\ ChkResolved =>
           \A i \in 1..Len(Fields) :
               Readable(Fields[i]) =>
                   IsTrimOf(chk_cfg[Fields[i].name], files[Fields[i].file].text)

C9_Witness ==
    /\ ChkResolved
    /\ secretDir = "ok"
    /\ files["port"] = TextFile(<<" ", "a", "\n">>)
    /\ cfg["port"] = <<"a">>
    /\ chk_cfg["port"] = <<"a">>

\* C10: the page of one root-path request shows the host and port the health
\* check used: the "(pending)" placeholder exactly when the health check
\* returned the waiting-for-provisioning result.
C10_PageMatchesCheck ==
    (Finished /\ exc = "none") =>
        /\ response.db_host = PendingHost
               <=> (~result.ok /\ result.error = PendingMsg)
        /\ nConnects > 0 =>
               /\ response.db_host = chk_cfg["host"]
               /\ response.db_port = chk_cfg["port"]

====
